---- MODULE Spec2Model ----
(***************************************************************************)
(* State-machine model of src/js/app.js: the page's file list and its      *)
(* handlers (handleFiles, removeFile, clearAll, startConversion,           *)
(* convertSingleFile, updateConversionProgress) and the AudioConverter     *)
(* class (isValidAudioFile, validateFileSize, convertToFLAC,               *)
(* batchConvert).                                                          *)
(*                                                                         *)
(* A session drives either the page or, from a pristine page, one direct   *)
(* AudioConverter.batchConvert call (app.js itself has no call site of     *)
(* batchConvert).                                                          *)
(*                                                                         *)
(* Timers.  Every convertToFLAC call registers setInterval(.., 30) and     *)
(* then setTimeout(.., 1000).  Each timer callback is one task, followed   *)
(* by the microtasks it made runnable (the await continuations,            *)
(* Promise.all, the loop of startConversion / batchConvert): one action.   *)
(* Timer callbacks run in the order they fall due, each possibly late by   *)
(* any amount.  The calls of one window are made in one task, so their     *)
(* intervals tick round-robin in the order they were set, and their        *)
(* timeouts fall due together, after the first tick of each of their       *)
(* intervals and before any tick that is set after the first of them has   *)
(* run: they fire back to back, in the order they were set.  How many      *)
(* ticks precede them is left open.  A run ends with every call of it      *)
(* settled and every interval cleared, but its timeouts may still be       *)
(* pending: they stay pending through a later startConversion, fire        *)
(* before the timeouts of the new run and take their value of              *)
(* Math.random() like any other callback.                                  *)
(*                                                                         *)
(* Math.random() is the session's pseudo-random stream: a seed fixes the   *)
(* sequence of values, every call takes the next one.  Values are counted  *)
(* in fifteenths, k standing for k/15.                                     *)
(***************************************************************************)
EXTENDS Integers, Sequences, FiniteSets, TLC

\* ------------------------------------------------------------- bounds

\* Longest file list the page harness builds.
MaxFiles == 11

\* Longest file list handed to batchConvert.
MaxBatchFiles == 4

\* Largest concurrentLimit handed to batchConvert.
MaxLimit == 2

\* Longest file list the page harness clicks a remove button of.
MaxEdit == 3

\* ------------------------------------------------------------ helpers

Min(a, b) == IF a <= b THEN a ELSE b

Range(s) == {s[n] : n \in DOMAIN s}

\* String.prototype.startsWith on character sequences.
StartsWith(s, prefix) ==
    /\ Len(s) >= Len(prefix)
    /\ SubSeq(s, 1, Len(prefix)) = prefix

\* A slice that takes the element at its end index too.
SliceInclusive(s, from, to) == SubSeq(s, from + 1, Min(to + 1, Len(s)))

\* Array.prototype.slice(from, to) for 0 <= from <= to (0-based, to excluded).
Slice(s, from, to) == SubSeq(s, from + 1, Min(to, Len(s)))

\* ------------------------------------------------- AudioConverter data

\* MIME types are character sequences, so that startsWith is computed.
AudioPrefix == <<"a","u","d","i","o","/">>

supportedFormats ==
    { AudioPrefix \o <<"m","p","e","g">>,
      AudioPrefix \o <<"w","a","v">>,
      AudioPrefix \o <<"x","-","w","a","v">>,
      AudioPrefix \o <<"w","a","v","e">>,
      AudioPrefix \o <<"a","a","c">>,
      AudioPrefix \o <<"o","g","g">>,
      AudioPrefix \o <<"m","p","4">>,
      AudioPrefix \o <<"x","-","m","4","a">>,
      AudioPrefix \o <<"f","l","a","c">>,
      AudioPrefix \o <<"x","-","f","l","a","c">>,
      AudioPrefix \o <<"w","m","a">>,
      AudioPrefix \o <<"w","e","b","m">>,
      AudioPrefix \o <<"o","p","u","s">> }

\* validateFileSize: const maxSize = 1024 * 1024 * 1024.
maxSize == 1024 * 1024 * 1024

\* startConversion: const batchSize = 10.
batchSize == 10

isValidAudioFile(file) ==
    \/ file.type \in supportedFormats
    \/ StartsWith(file.type, AudioPrefix)

\* validateFileSize with file.size < maxSize for valid.
validateFileSizeStrict(file) ==
    [ valid   |-> file.size < maxSize,
      message |-> IF file.size >= maxSize THEN "File terlalu besar" ELSE "" ]

\* The fields of validateFileSize's result that handleFiles reads; the
\* message's text is formatFileSize(maxSize), kept as a tag.
validateFileSize(file) ==
    [ valid   |-> file.size <= maxSize,
      message |-> IF file.size > maxSize THEN "File terlalu besar" ELSE "" ]

\* ------------------------------------------------------ the file universe

TypeWav  == AudioPrefix \o <<"w","a","v">>
TypeFoo  == AudioPrefix \o <<"f","o","o">>
TypeNone == << >>

File(name, size, type) == [name |-> name, size |-> size, type |-> type]

FileA    == File("a.wav", 10 * 1024 * 1024, TypeWav)
FileB    == File("b.xyz", 2048, TypeNone)
FileBig  == File("big.wav", maxSize + 1, TypeWav)
FileEdge == File("edge.ogg", maxSize, TypeFoo)

\* Files that break several rules at once, or share only a name.
FileHuge  == File("huge.bin", maxSize + 1, TypeNone)
FileAlias == File("a.wav", 10 * 1024 * 1024, TypeNone)
FileA2    == File("a.wav", 2048, TypeWav)

TrackNames ==
    << "t01.wav", "t02.wav", "t03.wav", "t04.wav", "t05.wav", "t06.wav",
       "t07.wav", "t08.wav", "t09.wav", "t10.wav", "t11.wav", "t12.wav",
       "t13.wav", "t14.wav" >>

Track(k) == File(TrackNames[k], 1000 + k, TypeWav)

Tracks(n) == [k \in 1..n |-> Track(k)]

\* a.wav, b.xyz and a.wav again in one FileList.
Scenario == <<FileA, FileB, FileA>>

\* The FileLists the page harness drops on handleFiles.
Selections ==
    { << >>,
      <<FileA>>,
      Scenario,
      <<FileBig, FileEdge>>,
      Tracks(MaxFiles) }

\* Longest file list the page harness converts a second time.
MaxRerun == 2

\* The tasks of earlier runs that have timeouts pending when a run starts.
MaxStale == 2

\* ------------------------------------------------------- Math.random

\* Pseudo-random streams (periodic), values in fifteenths.
Seeds == { <<14>>, <<14, 0>> }

\* Math.random() * 15 - 5
IncrementSigned(k) == k - 5

\* (Math.random() * 15 + 5) * 20
IncrementScaled(k) == (k + 5) * 20

\* const increment = Math.random() * 15 + 5, for Math.random() = k/15.
Increment(k) == k + 5

\* Math.random() < 0.001, for Math.random() = k/15.
DrawFails(k) == 1000 * k < 15

\* ------------------------------------------------------------- state

VARIABLES
    selectedFiles,  \* let selectedFiles = []
    isConverting,   \* let isConverting = false
    fileItems,      \* the .file-item elements of #fileList, by data-index
    candidates,     \* handleFiles: filesArray of the call that just returned
    validFiles,     \* handleFiles: validFiles of that call
    invalidFiles,   \* handleFiles: invalidFiles of that call
    conv,           \* the convertToFLAC calls of the current run, by file position
    turn,           \* position whose interval ticked last
    burst,          \* the timeouts of one task are firing
    rand,           \* Math.random: [seed, pos]
    run,            \* startConversion's frame: [phase, i, completedCount]
    reports,        \* the updateConversionProgress calls of the current run
    stale,          \* the pending timeouts of earlier runs, counted by task
    batch           \* the batchConvert call: [state, files, limit, i, results, lastCall]

vars == << selectedFiles, isConverting, fileItems, candidates, validFiles,
           invalidFiles, conv, turn, burst, rand, run, reports, stale, batch >>

\* ----------------------------------------------------- file management

\* createFileItem: status "Ready", class "file-status ready", empty bar.
createFileItem(file, index) ==
    [status |-> "Ready", cls |-> "ready", width |-> 0, active |-> FALSE]

\* renderFileList: with an empty list the elements are left as they are.
renderFileList(files, items) ==
    IF Len(files) = 0
    THEN items
    ELSE [k \in 1..Len(files) |-> createFileItem(files[k], k - 1)]

\* selectedFiles.every(f => f.name === file.name && f.size === file.size)
isDuplicateEvery(file, selected) ==
    \A n \in DOMAIN selected :
        selected[n].name = file.name /\ selected[n].size = file.size

\* selectedFiles.some(f => f.name === file.name && f.size === file.size)
isDuplicate(file, selected) ==
    \E n \in DOMAIN selected :
        selected[n].name = file.name /\ selected[n].size = file.size

\* The entry pushed on invalidFiles; "file" is a ghost field (the code keeps
\* the name and the reason only) that ties the entry to its candidate.
Invalid(file, reason) == [name |-> file.name, reason |-> reason, file |-> file]

\* A copy of HandleOne whose size branch lacks its return.
HandleOneFallThrough(acc, file, selected) ==
    IF ~isValidAudioFile(file)
    THEN [acc EXCEPT !.invalid = Append(@, Invalid(file, "Format tidak didukung"))]
    ELSE LET sizeValidation == validateFileSize(file)
             acc2 == IF ~sizeValidation.valid
                     THEN [acc EXCEPT !.invalid =
                              Append(@, Invalid(file, sizeValidation.message))]
                     ELSE acc
         IN IF isDuplicate(file, selected)
            THEN [acc2 EXCEPT !.invalid =
                     Append(@, Invalid(file, "File sudah ada dalam daftar"))]
            ELSE [acc2 EXCEPT !.valid = Append(@, file)]

\* A copy of HandleOne that validates the size before the type.
HandleOneSizeFirst(acc, file, selected) ==
    LET sizeValidation == validateFileSize(file)
    IN IF ~sizeValidation.valid
       THEN [acc EXCEPT !.invalid = Append(@, Invalid(file, sizeValidation.message))]
       ELSE IF ~isValidAudioFile(file)
            THEN [acc EXCEPT !.invalid =
                     Append(@, Invalid(file, "Format tidak didukung"))]
            ELSE IF isDuplicate(file, selected)
                 THEN [acc EXCEPT !.invalid =
                          Append(@, Invalid(file, "File sudah ada dalam daftar"))]
                 ELSE [acc EXCEPT !.valid = Append(@, file)]

\* A copy of HandleOne that looks for duplicates among the files accepted
\* earlier in the same call too.
HandleOneDedup(acc, file, selected) ==
    IF ~isValidAudioFile(file)
    THEN [acc EXCEPT !.invalid = Append(@, Invalid(file, "Format tidak didukung"))]
    ELSE LET sizeValidation == validateFileSize(file)
         IN IF ~sizeValidation.valid
            THEN [acc EXCEPT !.invalid =
                     Append(@, Invalid(file, sizeValidation.message))]
            ELSE IF isDuplicate(file, selected \o acc.valid)
                 THEN [acc EXCEPT !.invalid =
                          Append(@, Invalid(file, "File sudah ada dalam daftar"))]
                 ELSE [acc EXCEPT !.valid = Append(@, file)]

\* One iteration of filesArray.forEach in handleFiles.
HandleOne(acc, file, selected) ==
    IF ~isValidAudioFile(file)
    THEN [acc EXCEPT !.invalid = Append(@, Invalid(file, "Format tidak didukung"))]
    ELSE LET sizeValidation == validateFileSize(file)
         IN IF ~sizeValidation.valid
            THEN [acc EXCEPT !.invalid =
                     Append(@, Invalid(file, sizeValidation.message))]
            ELSE IF isDuplicate(file, selected)
                 THEN [acc EXCEPT !.invalid =
                          Append(@, Invalid(file, "File sudah ada dalam daftar"))]
                 ELSE [acc EXCEPT !.valid = Append(@, file)]

RECURSIVE ForEachFile(_, _, _, _)
ForEachFile(files, k, acc, selected) ==
    IF k > Len(files)
    THEN acc
    ELSE ForEachFile(files, k + 1, HandleOne(acc, files[k], selected), selected)

\* selectedFiles = validFiles
AddedReplace(selected, valid) == valid

\* selectedFiles = [...selectedFiles, ...validFiles]
Added(selected, valid) == selected \o valid

\* handleFiles(files)
HandleFiles(files) ==
    /\ batch.state = "idle"
    /\ IF isConverting
       THEN UNCHANGED vars
       ELSE LET r == ForEachFile(files, 1, [valid |-> << >>, invalid |-> << >>],
                                 selectedFiles)
                added == Added(selectedFiles, r.valid)
            IN /\ Len(added) <= MaxFiles
               /\ candidates' = files
               /\ validFiles' = r.valid
               /\ invalidFiles' = r.invalid
               /\ IF Len(r.valid) > 0
                  THEN /\ selectedFiles' = added
                       /\ fileItems' = renderFileList(added, fileItems)
                  ELSE UNCHANGED << selectedFiles, fileItems >>
               /\ UNCHANGED << isConverting, conv, turn, burst, rand, run,
                               reports, stale, batch >>

\* selectedFiles.splice(index, 1)
Splice1(s, index) ==
    [k \in 1..(Len(s) - 1) |-> IF k <= index THEN s[k] ELSE s[k + 1]]

\* removeFile(index), index the data-index of a rendered remove button.
RemoveFile(index) ==
    /\ batch.state = "idle"
    /\ index \in 0..(Len(selectedFiles) - 1)
    /\ Len(selectedFiles) <= MaxEdit
    /\ IF isConverting
       THEN UNCHANGED vars
       ELSE /\ selectedFiles' = Splice1(selectedFiles, index)
            /\ fileItems' = renderFileList(selectedFiles', fileItems)
            /\ candidates' = << >>
            /\ validFiles' = << >>
            /\ invalidFiles' = << >>
            /\ UNCHANGED << isConverting, conv, turn, burst, rand, run,
                            reports, stale, batch >>

\* clearAll() without its isConverting check.
ClearAllUnguarded(confirmed) ==
    /\ batch.state = "idle"
    /\ IF Len(selectedFiles) = 0 \/ ~confirmed
       THEN UNCHANGED vars
       ELSE /\ selectedFiles' = << >>
            /\ candidates' = << >>
            /\ validFiles' = << >>
            /\ invalidFiles' = << >>
            /\ UNCHANGED << isConverting, fileItems, conv, turn, burst, rand,
                            run, reports, stale, batch >>

\* clearAll(), confirmed the answer given to confirm().
ClearAll(confirmed) ==
    /\ batch.state = "idle"
    /\ IF isConverting \/ Len(selectedFiles) = 0 \/ ~confirmed
       THEN UNCHANGED vars
       ELSE /\ selectedFiles' = << >>
            /\ candidates' = << >>
            /\ validFiles' = << >>
            /\ invalidFiles' = << >>
            /\ UNCHANGED << isConverting, fileItems, conv, turn, burst, rand,
                            run, reports, stale, batch >>

\* ------------------------------------------------------ convertToFLAC

\* A position of the run that no convertToFLAC call was made for (yet).
NoCall(file) ==
    [file |-> file, progress |-> 0, last |-> 0, state |-> "none",
     interval |-> FALSE, timeout |-> FALSE, task |-> 0]

\* convertToFLAC(file, progressCallback): the executor sets progress = 0, the
\* interval and the timeout; "last" is the last value handed to
\* progressCallback, "task" numbers the task the call is made in.
convertToFLAC(file, task) ==
    [file |-> file, progress |-> 0, last |-> 0, state |-> "pending",
     interval |-> TRUE, timeout |-> TRUE, task |-> task]

\* The convertedFile a call resolves with (originalName, originalSize; the
\* derived names, the settings and the timestamp are left out).
ConvertedFile(file) == [originalName |-> file.name, originalSize |-> file.size]

\* A resolve that is never made.
ResolveNever(s) == s

\* resolve(value) / reject(error) on a promise in state s: a settled promise
\* stays as it is.
Resolve(s) == IF s = "pending" THEN "resolved" ELSE s

\* A reject that takes effect on a settled promise too.
RejectSettled(s) == "rejected"

Reject(s) == IF s = "pending" THEN "rejected" ELSE s

\* One callback of the interval, with Math.random() = k/15.
IntervalTick(c, k) ==
    LET progress == c.progress + Increment(k)
    IN IF progress >= 100
       THEN [c EXCEPT !.progress = 100, !.interval = FALSE,
                      !.state = Resolve(@)]
       ELSE [c EXCEPT !.progress = progress, !.last = Min(progress, 100)]

\* The callback of the timeout, with Math.random() = k/15.
TimeoutFire(c, k) ==
    IF DrawFails(k)
    THEN [c EXCEPT !.timeout = FALSE, !.interval = FALSE, !.state = Reject(@)]
    ELSE [c EXCEPT !.timeout = FALSE]

\* What a callback that took the call from c0 to c1 made runnable.
Event(c0, c1) ==
    IF c0.state = "pending" /\ c1.state = "resolved" THEN "resolved"
    ELSE IF c0.state = "pending" /\ c1.state = "rejected" THEN "rejected"
    ELSE IF c1.last # c0.last THEN "progress"
    ELSE "none"

Draw == rand.seed[rand.pos]

NextRand == [rand EXCEPT !.pos = (rand.pos % Len(rand.seed)) + 1]

Live == {p \in DOMAIN conv : conv[p].interval}

\* The live interval that ticks next: the first set after the one that
\* ticked last, round-robin.
NextLive ==
    IF \E p \in Live : p > turn
    THEN CHOOSE p \in Live : p > turn /\ \A q \in Live : q > turn => p <= q
    ELSE CHOOSE p \in Live : \A q \in Live : p <= q

Timeouts == {p \in DOMAIN conv : conv[p].timeout}

\* The timeout that fires next: the one set first.
NextTimeout == CHOOSE p \in Timeouts : \A q \in Timeouts : p <= q

\* The pending timeouts of the current calls that were set in the tasks
\* given, counted task by task in the order they were set in.
RECURSIVE TimeoutsByTask(_)
TimeoutsByTask(tasks) ==
    IF tasks = {}
    THEN << >>
    ELSE LET first == CHOOSE t \in tasks : \A u \in tasks : t <= u
         IN <<Cardinality({p \in Timeouts : conv[p].task = first})>>
                \o TimeoutsByTask(tasks \ {first})

\* The calls made in the same task as the call at p.
SameTask(cv, p) == {q \in DOMAIN cv : cv[q].task = cv[p].task}

\* A call whose closure nothing but its pending timeout refers to: the frame
\* that awaited it has ended and its interval is cleared.  Its progress is
\* never read again.
Retire(c) == IF c.interval THEN c ELSE [c EXCEPT !.progress = 0, !.last = 0]

RetireAll(cv, phase) ==
    IF phase = "running" THEN cv ELSE [p \in DOMAIN cv |-> Retire(cv[p])]

\* ------------------------------------------------- conversion process

\* The double arithmetic of completed / total * 100.  A natural number is a
\* sequence of limbs of LimbBits bits, the least significant first and the
\* last one as large as it gets; a positive double is [limbs, exp], the
\* number limbs * 2^exp, of 1 + 4 * LimbBits = 53 bits: four limbs under a
\* leading 1.  The steps are functions, which take their arguments by value.
LimbBits == 13

Limb == 8192

Pow2[n \in Nat] == IF n = 0 THEN 1 ELSE 2 * Pow2[n - 1]

\* The number of bits of v.
BitLength[v \in Nat] == IF v = 0 THEN 0 ELSE 1 + BitLength[v \div 2]

\* limbs + v
AddSmall[limbs \in Seq(Nat), v \in Nat] ==
    IF Len(limbs) = 1 THEN <<limbs[1] + v>>
    ELSE <<(limbs[1] + v) % Limb>>
             \o AddSmall[Tail(limbs), (limbs[1] + v) \div Limb]

\* limbs * m + carry
TimesSmall[limbs \in Seq(Nat), m \in Nat, carry \in Nat] ==
    IF Len(limbs) = 1 THEN <<limbs[1] * m + carry>>
    ELSE <<(limbs[1] * m + carry) % Limb>>
             \o TimesSmall[Tail(limbs), m, (limbs[1] * m + carry) \div Limb]

\* limbs rounded to a multiple of 2^drop, drop <= LimbBits: to the nearest
\* one, a tie to the even one; below tells that the number rounded has
\* something more under its limbs.
RoundBits[limbs \in Seq(Nat), drop \in Nat, below \in BOOLEAN] ==
    LET unit == Pow2[drop]
        low == limbs[1] % unit
        odd == ((limbs[1] + Limb * limbs[2]) \div unit) % 2 = 1
        up == \/ 2 * low > unit
              \/ 2 * low = unit /\ (below \/ odd)
    IN AddSmall[<<limbs[1] - low>> \o Tail(limbs), IF up THEN unit ELSE 0]

\* The remainder of num * 2^(LimbBits * j) by den.
RemainderAt[num \in Nat, den \in Nat, j \in Nat] ==
    IF j = 0 THEN num % den ELSE (RemainderAt[num, den, j - 1] * Limb) % den

\* Limb j after the binary point of num / den, for num < den.
QuotientLimb[num \in Nat, den \in Nat, j \in Nat] ==
    (RemainderAt[num, den, j - 1] * Limb) \div den

\* The least k with num * 2^k >= den.
ShiftFor[num \in Nat, den \in Nat] ==
    IF num >= den THEN 0 ELSE 1 + ShiftFor[2 * num, den]

\* completed / total as a double, for 0 < completed <= total: the leading 1
\* of the quotient and the five limbs after it, rounded to four.
DivideDouble[completed \in Nat, total \in Nat] ==
    LET k == ShiftFor[completed, total]
        num == completed * Pow2[k] - total
    IN [limbs |-> Tail(RoundBits[
                      [j \in 1..5 |-> QuotientLimb[num, total, 6 - j]] \o <<1>>,
                      LimbBits, RemainderAt[num, total, 5] > 0]),
        exp |-> 0 - k - 4 * LimbBits]

\* The positive doubles.
Double == [limbs : Seq(Nat), exp : Int]

\* x * 100 as a double: the product has the bits of its last limb over
\* four limbs, all but one of them more than a double holds.
TimesHundred[x \in Double] ==
    LET product == TimesSmall[x.limbs, 100, 0]
    IN [limbs |-> RoundBits[product, BitLength[product[5]] - 1, FALSE],
        exp |-> x.exp]

\* Math.round(x) for a double x of at most LimbBits bits before the binary
\* point: floor(x + 1/2), from the bits of x down to the one of weight 1/2.
MathRound[x \in Double] ==
    LET shift == 0 - x.exp - 1 - 3 * LimbBits
        halves == IF shift > 30 THEN 0
                  ELSE (x.limbs[5] * Limb + x.limbs[4]) \div Pow2[shift]
    IN (halves + 1) \div 2

\* updateConversionProgress(completed, total) for 0 <= completed <= total
\* and total > 0: Math.round((completed / total) * 100).
updateConversionProgress(completed, total) ==
    [completed |-> completed, total |-> total,
     percentage |-> IF completed = 0 THEN 0
                    ELSE MathRound[TimesHundred[DivideDouble[completed, total]]]]

\* convertSingleFile with its try/catch missing: the rejection goes on.
Uncaught == "rejected"

\* How the promise of convertSingleFile settles when convertToFLAC rejects:
\* the catch block handles the error, the async function returns.
Caught == "fulfilled"

\* convertSingleFile without the await on convertToFLAC: it returns at once.
SingleOutcomeNoAwait(c) == "fulfilled"

\* The state of convertSingleFile(file, index)'s promise; "none" is the
\* early return for a missing .file-item.
SingleOutcome(c) ==
    CASE c.state = "pending"  -> "pending"
      [] c.state = "resolved" -> "fulfilled"
      [] c.state = "rejected" -> Caught
      [] OTHER                -> "fulfilled"

\* convertSingleFile up to its await: status "Converting...", bar active.
Converting(item) ==
    [item EXCEPT !.status = "Converting...", !.cls = "converting", !.active = TRUE]

\* convertSingleFile after its await, and the progress callback it passes.
\* The status texts are written without their check mark and cross.
ItemAfter(item, ev, c1) ==
    CASE ev = "resolved" ->
            [item EXCEPT !.width = 100, !.status = "Completed", !.cls = "completed"]
      [] ev = "rejected" ->
            [item EXCEPT !.status = "Failed", !.cls = "ready", !.active = FALSE]
      [] ev = "progress" -> [item EXCEPT !.width = c1.last]
      [] OTHER -> item

\* A count of windows, not of files: completedCount += 1.
AddCompletedPerWindow(completedCount, window) == completedCount + 1

\* completedCount += batch.length
AddCompleted(completedCount, window) == completedCount + Len(window)

\* const batch = selectedFiles.slice(i, Math.min(i + batchSize, selectedFiles.length))
Window(i) == Slice(selectedFiles, i, Min(i + batchSize, Len(selectedFiles)))

\* The for loop of startConversion from window start i on, up to the next
\* await that has something to wait for, or to the end of the function.
RECURSIVE RunLoop(_, _, _, _, _)
RunLoop(i, completedCount, reps, items, cv) ==
    LET n == Len(selectedFiles)
    IN IF ~(i < n)
       THEN [phase |-> "completed", i |-> i, completedCount |-> completedCount,
             reports |-> reps, items |-> items, conv |-> cv]
       ELSE LET window == Window(i)
                started == {p \in (i + 1)..(i + Len(window)) : p <= Len(items)}
                items2 == [p \in DOMAIN items |->
                             IF p \in started THEN Converting(items[p]) ELSE items[p]]
                cv2 == [p \in DOMAIN cv |->
                          IF p \in started THEN convertToFLAC(window[p - i], i + 1)
                          ELSE cv[p]]
                done == AddCompleted(completedCount, window)
            IN IF started # {}
               THEN [phase |-> "running", i |-> i, completedCount |-> completedCount,
                     reports |-> reps, items |-> items2, conv |-> cv2]
               ELSE RunLoop(i + batchSize, done,
                            Append(reps, updateConversionProgress(done, n)),
                            items2, cv2)

\* The frame of startConversion after a callback changed the calls to cv and
\* the elements to items: Promise.all of the window, then the loop, the catch
\* block and the finally block.
AfterWindow(items, cv) ==
    LET n == Len(selectedFiles)
        window == Window(run.i)
        outcomes == {SingleOutcome(cv[p]) :
                        p \in {q \in (run.i + 1)..(run.i + Len(window)) : q <= n}}
        done == AddCompleted(run.completedCount, window)
        same == [phase |-> run.phase, i |-> run.i,
                 completedCount |-> run.completedCount,
                 reports |-> reports, items |-> items, conv |-> cv]
    IN IF run.phase # "running" THEN same
       ELSE IF "rejected" \in outcomes THEN [same EXCEPT !.phase = "error"]
       ELSE IF outcomes = {"fulfilled"}
       THEN RunLoop(run.i + batchSize, done,
                    Append(reports, updateConversionProgress(done, n)), items, cv)
       ELSE same

\* The page's part of a timer callback on position p.
AppStep(p, ev, cv) ==
    LET items == IF p \in DOMAIN fileItems
                 THEN [fileItems EXCEPT ![p] = ItemAfter(@, ev, cv[p])]
                 ELSE fileItems
        r == AfterWindow(items, cv)
    IN /\ fileItems' = r.items
       /\ conv' = RetireAll(r.conv, r.phase)
       /\ reports' = r.reports
       /\ run' = [phase |-> r.phase, i |-> r.i, completedCount |-> r.completedCount]
       /\ isConverting' = (r.phase = "running")
       /\ UNCHANGED << selectedFiles, candidates, validFiles, invalidFiles, batch >>

\* startConversion() without its isConverting check.
StartConversionReentrant ==
    /\ batch.state = "idle"
    /\ IF Len(selectedFiles) = 0
       THEN UNCHANGED vars
       ELSE LET r == RunLoop(0, 0, << >>, fileItems,
                             [p \in 1..Len(selectedFiles) |-> NoCall(selectedFiles[p])])
            IN /\ fileItems' = r.items
               /\ conv' = RetireAll(r.conv, r.phase)
               /\ reports' = r.reports
               /\ run' = [phase |-> r.phase, i |-> r.i,
                          completedCount |-> r.completedCount]
               /\ isConverting' = (r.phase = "running")
               /\ turn' = 0
               /\ stale' = stale \o TimeoutsByTask({conv[p].task : p \in Timeouts})
               /\ Len(stale') <= MaxStale
               /\ candidates' = << >>
               /\ validFiles' = << >>
               /\ invalidFiles' = << >>
               /\ UNCHANGED << selectedFiles, burst, rand, batch >>

\* startConversion().  A run ends when every call of it is settled, so the
\* calls of the run before have their intervals cleared; the timeouts of
\* theirs that are still pending stay pending, and the new calls take the
\* places of the old ones.
StartConversion ==
    /\ batch.state = "idle"
    /\ IF Len(selectedFiles) = 0 \/ isConverting
       THEN UNCHANGED vars
       ELSE LET r == RunLoop(0, 0, << >>, fileItems,
                             [p \in 1..Len(selectedFiles) |-> NoCall(selectedFiles[p])])
            IN /\ fileItems' = r.items
               /\ conv' = RetireAll(r.conv, r.phase)
               /\ reports' = r.reports
               /\ run' = [phase |-> r.phase, i |-> r.i,
                          completedCount |-> r.completedCount]
               /\ isConverting' = (r.phase = "running")
               /\ turn' = 0
               /\ stale' = stale \o TimeoutsByTask({conv[p].task : p \in Timeouts})
               /\ Len(stale') <= MaxStale
               /\ candidates' = << >>
               /\ validFiles' = << >>
               /\ invalidFiles' = << >>
               /\ UNCHANGED << selectedFiles, burst, rand, batch >>

\* ------------------------------------------------------- batchConvert

\* for (let i = 0; i < files.length; i += concurrentLimit)
\*     chunks.push(files.slice(i, i + concurrentLimit));
\* for concurrentLimit > 0 (the loop does not end otherwise).
RECURSIVE ChunksFrom(_, _, _, _)
ChunksFrom(files, concurrentLimit, i, chunks) ==
    IF i < Len(files)
    THEN ChunksFrom(files, concurrentLimit, i + concurrentLimit,
                    Append(chunks, Slice(files, i, i + concurrentLimit)))
    ELSE chunks

\* The number of files in the chunks before chunk c.
RECURSIVE Offset(_, _)
Offset(chunks, c) ==
    IF c <= 1 THEN 0 ELSE Offset(chunks, c - 1) + Len(chunks[c - 1])

\* The positions (in files) of the calls made for chunk c.
ChunkPositions(chunks, c) ==
    (Offset(chunks, c) + 1)..(Offset(chunks, c) + Len(chunks[c]))

\* for (const chunk of chunks) from chunk c on, up to the next await or to
\* the return.
BatchLoop(b, c, results, cv) ==
    IF c > Len(b.chunks)
    THEN [batch |-> [b EXCEPT !.state = "resolved", !.c = c, !.results = results],
          conv |-> cv]
    ELSE LET off == Offset(b.chunks, c)
         IN [batch |-> [b EXCEPT !.state = "running", !.c = c, !.results = results],
             conv |-> [p \in DOMAIN cv |->
                         IF p \in ChunkPositions(b.chunks, c)
                         THEN convertToFLAC(b.chunks[c][p - off], c)
                         ELSE cv[p]]]

\* results.unshift(...chunkResults)
Unshift(results, chunkResults) == chunkResults \o results

\* results.push(...chunkResults)
Push(results, chunkResults) == results \o chunkResults

\* The frame of batchConvert after a callback changed the calls to cv:
\* Promise.all of the chunk (it rejects with the first rejection), then
\* results.push(...chunkResults) and the loop.
AfterChunk(b, cv) ==
    LET ps == ChunkPositions(b.chunks, b.c)
        off == Offset(b.chunks, b.c)
        chunkResults == [j \in 1..Len(b.chunks[b.c]) |-> ConvertedFile(cv[off + j].file)]
    IN IF b.state # "running" THEN [batch |-> b, conv |-> cv]
       ELSE IF \E p \in ps : cv[p].state = "rejected"
       THEN [batch |-> [b EXCEPT !.state = "rejected"], conv |-> cv]
       ELSE IF \A p \in ps : cv[p].state = "resolved"
       THEN BatchLoop(b, b.c + 1, Push(b.results, chunkResults), cv)
       ELSE [batch |-> b, conv |-> cv]

\* batchConvert's part of a timer callback on position p: the callback it
\* passes to convertToFLAC calls progressCallback(file, progress).
BatchStep(p, ev, cv) ==
    LET b == IF ev = "progress"
             THEN [batch EXCEPT !.lastCall =
                      [name |-> cv[p].file.name, progress |-> cv[p].last]]
             ELSE batch
        r == AfterChunk(b, cv)
    IN /\ batch' = r.batch
       /\ conv' = r.conv
       /\ UNCHANGED << selectedFiles, isConverting, fileItems, candidates,
                       validFiles, invalidFiles, run, reports >>

Pristine ==
    /\ selectedFiles = << >>
    /\ fileItems = << >>
    /\ candidates = << >>
    /\ conv = << >>
    /\ run.phase = "idle"

\* converter.batchConvert(files, progressCallback, concurrentLimit)
BatchConvert(files, concurrentLimit) ==
    /\ batch.state = "idle"
    /\ Pristine
    /\ IF Len(files) > 0 /\ concurrentLimit <= 0
       THEN /\ batch' = [batch EXCEPT !.state = "hung", !.files = files,
                                      !.limit = concurrentLimit]
            /\ UNCHANGED conv
       ELSE LET b == [batch EXCEPT !.files = files, !.limit = concurrentLimit,
                                   !.chunks = ChunksFrom(files, concurrentLimit, 0, << >>)]
                r == BatchLoop(b, 1, << >>, [p \in 1..Len(files) |-> NoCall(files[p])])
            IN /\ batch' = r.batch
               /\ conv' = r.conv
    /\ turn' = 0
    /\ UNCHANGED << selectedFiles, isConverting, fileItems, candidates,
                    validFiles, invalidFiles, burst, rand, run, reports, stale >>

\* ------------------------------------------------------------- timers

\* A callback of the interval that is due next, Math.random() giving k/15.
TickWith(k) ==
    /\ Live # {}
    /\ ~burst
    /\ LET p == NextLive
           c1 == IntervalTick(conv[p], k)
           ev == Event(conv[p], c1)
           cv == [conv EXCEPT ![p] = c1]
       IN /\ turn' = p
          /\ UNCHANGED << burst, stale >>
          /\ IF batch.state = "idle" THEN AppStep(p, ev, cv) ELSE BatchStep(p, ev, cv)

\* The callback of the timeout that is due next, Math.random() giving k/15:
\* the timeouts of earlier runs are due first, and the promise of such a
\* call is settled and its interval cleared, so that the callback changes
\* nothing whatever it draws.
FailTimerWith(k) ==
    IF stale # << >>
    THEN /\ stale' = IF Head(stale) > 1
                     THEN <<Head(stale) - 1>> \o Tail(stale)
                     ELSE Tail(stale)
         /\ burst' = (Head(stale) > 1)
         /\ UNCHANGED << selectedFiles, isConverting, fileItems, candidates,
                         validFiles, invalidFiles, conv, turn, run, reports,
                         batch >>
    ELSE /\ Timeouts # {}
         /\ LET p == NextTimeout
                c1 == TimeoutFire(conv[p], k)
                ev == Event(conv[p], c1)
                cv == [conv EXCEPT ![p] = c1]
            IN /\ \A q \in SameTask(conv, p) :
                      ~(conv[q].state = "pending" /\ conv[q].progress = 0)
               /\ burst' = (\E q \in SameTask(conv, p) : q # p /\ conv[q].timeout)
               /\ UNCHANGED << turn, stale >>
               /\ IF batch.state = "idle"
                  THEN AppStep(p, ev, cv)
                  ELSE BatchStep(p, ev, cv)

Tick == TickWith(Draw) /\ rand' = NextRand

FailTimer == FailTimerWith(Draw) /\ rand' = NextRand

\* ------------------------------------------------------ specification

InitWith(seeds) ==
    /\ selectedFiles = << >>
    /\ isConverting = FALSE
    /\ fileItems = << >>
    /\ candidates = << >>
    /\ validFiles = << >>
    /\ invalidFiles = << >>
    /\ conv = << >>
    /\ turn = 0
    /\ burst = FALSE
    /\ rand \in [seed : seeds, pos : {1}]
    /\ run = [phase |-> "idle", i |-> 0, completedCount |-> 0]
    /\ reports = << >>
    /\ stale = << >>
    /\ batch = [state |-> "idle", files |-> << >>, limit |-> 0, chunks |-> << >>,
                c |-> 0, results |-> << >>,
                lastCall |-> [name |-> "", progress |-> 0]]

Init == InitWith(Seeds)

Limits == 0..MaxLimit

\* The file lists handed to batchConvert: the first n tracks of the album.
BatchSelections == {SubSeq(Tracks(MaxBatchFiles), 1, n) : n \in 0..MaxBatchFiles}

Next ==
    \/ \E files \in Selections : HandleFiles(files)
    \/ \E index \in 0..(MaxEdit - 1) : RemoveFile(index)
    \/ \E confirmed \in BOOLEAN : ClearAll(confirmed)
    \/ (run.phase = "idle" \/ Len(selectedFiles) <= MaxRerun) /\ StartConversion
    \/ \E files \in BatchSelections, limit \in Limits : BatchConvert(files, limit)
    \/ Tick
    \/ FailTimer

Spec == Init /\ [][Next]_vars

\* The page with a list of at most MaxFreeFiles files, Math.random() giving
\* any even number of fifteenths at every call: every sequence of the
\* increments 5, 7, .., 19, every sequence of failing (0) and passing draws.
MaxFreeFiles == 1

FreeDraws == {2 * j : j \in 0..7}

\* The FileLists dropped on that page: the first n tracks of the album.
FreeSelections == {SubSeq(Tracks(MaxFreeFiles), 1, n) : n \in 1..MaxFreeFiles}

InitFree == Init /\ rand.seed = <<14>>

NextFree ==
    \/ \E files \in FreeSelections : HandleFiles(files)
    \/ StartConversion
    \/ \E k \in FreeDraws : TickWith(k) /\ UNCHANGED rand
    \/ \E k \in FreeDraws : FailTimerWith(k) /\ UNCHANGED rand

SpecFree == InitFree /\ [][NextFree]_vars

\* The file list alone: handleFiles on every FileList of at most
\* MaxCandidates files of GateFiles (and the three files a.wav, b.xyz,
\* a.wav), removeFile and clearAll, the list kept to MaxGateList files.
MaxCandidates == 2

MaxGateList == 2

GateFiles == {FileA, FileBig, FileEdge, FileHuge, FileAlias}

GateSelections ==
    UNION {[1..n -> GateFiles] : n \in 0..MaxCandidates}
        \cup {Scenario}

NextGate ==
    \/ \E files \in GateSelections :
          HandleFiles(files) /\ Len(selectedFiles') <= MaxGateList
    \/ \E index \in 0..(MaxEdit - 1) : RemoveFile(index)
    \/ \E confirmed \in BOOLEAN : ClearAll(confirmed)

SpecGate == InitFree /\ [][NextGate]_vars

\* The file list under single-file submissions: handleFiles on one file of
\* GateFiles at a time, removeFile and clearAll.
NextSingle ==
    \/ \E file \in GateFiles \cup {FileA2, FileB} : HandleFiles(<<file>>)
    \/ \E index \in 0..(MaxEdit - 1) : RemoveFile(index)
    \/ \E confirmed \in BOOLEAN : ClearAll(confirmed)

SpecSingle == InitFree /\ [][NextSingle]_vars

\* batchConvert alone, also under a stream that makes a later file of a
\* chunk finish before an earlier one.
OrderSeeds == Seeds \cup { <<0, 14>> }

InitOrder == InitWith(OrderSeeds)

NextOrder ==
    \/ \E files \in BatchSelections, limit \in Limits : BatchConvert(files, limit)
    \/ Tick
    \/ FailTimer

SpecOrder == InitOrder /\ [][NextOrder]_vars

\* The page with its timers kept running: a live interval goes on ticking
\* and a timeout that was set fires (the event loop runs every timer that
\* is due).  A session drops one FileList on the empty list (two files, or
\* a window and one file more) and clicks the start button at any time; a
\* list of more than MaxRerun files is converted once.
LiveSelections == {Scenario, Tracks(batchSize + 1)}

NextPage ==
    \/ \E files \in LiveSelections : selectedFiles = << >> /\ HandleFiles(files)
    \/ (run.phase = "idle" \/ Len(selectedFiles) <= MaxRerun) /\ StartConversion
    \/ Tick
    \/ FailTimer

SpecLive ==
    /\ Init
    /\ [][NextPage]_vars
    /\ WF_vars(Tick)
    /\ WF_vars(FailTimer)

\* The page of SpecLive without the fairness, and updateConversionProgress
\* called on the untouched page with the arguments that the runs over lists
\* of up to MaxTotal files call it with: after window w of a list of total
\* files, completedCount is batchSize * w, or total after the last window.
MaxTotal == 400

RunReports ==
    {<<Min(batchSize * w, total), total>> :
        w \in 1..((MaxTotal + batchSize - 1) \div batchSize), total \in 1..MaxTotal}

UpdateConversionProgress(completed, total) ==
    /\ Pristine
    /\ batch.state = "idle"
    /\ reports = << >>
    /\ reports' = <<updateConversionProgress(completed, total)>>
    /\ UNCHANGED << selectedFiles, isConverting, fileItems, candidates,
                    validFiles, invalidFiles, conv, turn, burst, rand, run,
                    stale, batch >>

NextPercent ==
    \/ reports = << >> /\ \E call \in RunReports :
                               UpdateConversionProgress(call[1], call[2])
    \/ NextPage

SpecPercent == Init /\ [][NextPercent]_vars

\* -------------------------------------------------------------- claims

Terminal == {"resolved", "rejected"}

Pending == {p \in DOMAIN conv : conv[p].state = "pending"}

\* The concurrency limit of the session: batchSize on the page,
\* concurrentLimit in a batchConvert call.
Limit == IF batch.state = "idle" THEN batchSize ELSE batch.limit

WindowOf(p) == (p - 1) \div Limit

\* C1: a run of startConversion never ends in its catch block; it ends with
\* every file of the list dispatched and settled, a file marked Failed
\* exactly when its own convertToFLAC rejected and Completed exactly when
\* it resolved; and the step in which one call rejects leaves every other
\* pending call as it was.
C1_FailureIsolated ==
    [][ /\ run.phase = "running" => run'.phase \in {"running", "completed"}
        /\ (run.phase = "running" /\ run'.phase = "completed") =>
              \A p \in DOMAIN conv' :
                  /\ conv'[p].state \in Terminal
                  /\ conv'[p].state = "rejected" <=> fileItems'[p].status = "Failed"
                  /\ conv'[p].state = "resolved" <=> fileItems'[p].status = "Completed"
        /\ \A q \in Pending :
              (batch.state = "idle" /\ conv'[q].state = "rejected") =>
                  \A p \in Pending \ {q} : conv'[p] = conv[p]
      ]_vars

\* A finished run over two windows: a file of the first window failed, its
\* window-mates and the file of the second window completed.
C1_Witness ==
    /\ run.phase = "completed"
    /\ Len(selectedFiles) > batchSize
    /\ Len(fileItems) = Len(selectedFiles)
    /\ \E p \in 1..batchSize : fileItems[p].status = "Failed"
    /\ \E p \in 1..batchSize : fileItems[p].status = "Completed"
    /\ fileItems[batchSize + 1].status = "Completed"

\* C2 (as claimed): a batchConvert call with a non-empty list and a positive
\* concurrentLimit never rejects: it either is still converting or has
\* returned a result with one entry per file.
C2_BatchNeverFails ==
    (Len(batch.files) > 0 /\ batch.limit > 0) =>
        /\ batch.state \in {"running", "resolved"}
        /\ batch.state = "resolved" => Len(batch.results) = Len(batch.files)

\* C3: no call of a later window exists while a call of an earlier window
\* is unsettled.
C3_WindowBarrier ==
    \A p \in DOMAIN conv : \A q \in DOMAIN conv :
        (WindowOf(q) > WindowOf(p) /\ conv[q].state # "none")
            => conv[p].state \in Terminal

\* The second window is converting after a first window in which one call
\* rejected and another resolved.
C3_Witness ==
    /\ batch.state = "idle"
    /\ Len(conv) > batchSize
    /\ conv[batchSize + 1].state = "pending"
    /\ \E p \in 1..batchSize : conv[p].state = "rejected"
    /\ \E p \in 1..batchSize : conv[p].state = "resolved"

\* C4: the calls started and not yet settled are never more than the
\* concurrency limit.
C4_BoundedConcurrency == Cardinality(Pending) <= Limit

\* A full window of which one call has failed: all the others are in flight.
C4_Witness ==
    /\ batch.state = "idle"
    /\ run.phase = "running"
    /\ Cardinality(Pending) = batchSize - 1
    /\ \E p \in 1..batchSize : conv[p].state = "rejected"

\* C5: updateConversionProgress is called once after each window, the j-th
\* call with the number of files of the first j windows (failed ones
\* included) and the length of the list: ceil(N / batchSize) calls in a
\* finished run, the last one with N.
C5_BatchProgress ==
    (batch.state = "idle" /\ run.phase \in {"running", "completed"}) =>
        LET n == Len(conv)
        IN /\ \A j \in DOMAIN reports :
                  /\ reports[j].completed = Min(j * batchSize, n)
                  /\ reports[j].total = n
           /\ run.phase = "running" =>
                  /\ Len(reports) = run.i \div batchSize
                  /\ \A p \in 1..Min(Len(reports) * batchSize, n) :
                         conv[p].state \in Terminal
           /\ run.phase = "completed" =>
                  /\ Len(reports) = (n + batchSize - 1) \div batchSize
                  /\ Len(reports) > 0 => reports[Len(reports)].completed = n

\* A finished run of two windows with a failed file: two calls, 10 then 11.
C5_Witness ==
    /\ run.phase = "completed"
    /\ Len(conv) = batchSize + 1
    /\ Len(reports) = 2
    /\ reports[1].completed = batchSize
    /\ reports[2].completed = batchSize + 1
    /\ \E p \in DOMAIN conv : conv[p].state = "rejected"

TerminalStatus == {"Completed", "Failed"}

\* C6 (as claimed): a file shown Completed or Failed keeps that status as
\* long as it and the files before it stay in the list.
C6_TerminalAbsorbing ==
    [][ \A p \in DOMAIN fileItems :
            ( /\ fileItems[p].status \in TerminalStatus
              /\ p \in DOMAIN selectedFiles
              /\ p \in DOMAIN selectedFiles'
              /\ SubSeq(selectedFiles', 1, p) = SubSeq(selectedFiles, 1, p) )
            => fileItems'[p].status = fileItems[p].status
      ]_vars

\* C7: while a call is pending the values handed to its progress callback
\* never decrease, the bar shows the last of them, and on completion the
\* bar is set to 100, which is not below any of them.
C7_ProgressMonotone ==
    [][ \A p \in Pending :
            /\ conv'[p].state = "pending" =>
                  /\ conv'[p].last >= conv[p].last
                  /\ conv'[p].last # conv[p].last =>
                        fileItems'[p].width = conv'[p].last
            /\ conv'[p].state = "resolved" =>
                  /\ fileItems'[p].width = 100
                  /\ fileItems'[p].width >= conv[p].last
      ]_vars

\* A call that has reported a value above 90 and is still pending.
C7_Witness ==
    \E p \in Pending : conv[p].last > 90 /\ fileItems[p].width = conv[p].last

\* C8: a call never goes from resolved to rejected or from rejected to
\* resolved, and the status shown for it never goes from Completed to
\* Failed or from Failed to Completed.
C8_SettlesOnce ==
    [][ \A p \in DOMAIN conv :
            /\ conv[p].state = "resolved" => conv'[p].state # "rejected"
            /\ conv[p].state = "rejected" => conv'[p].state # "resolved"
            /\ (p \in DOMAIN fileItems /\ p \in DOMAIN fileItems') =>
                  /\ fileItems[p].status = "Completed" =>
                        fileItems'[p].status # "Failed"
                  /\ fileItems[p].status = "Failed" =>
                        fileItems'[p].status # "Completed"
      ]_vars

\* A call that resolved and whose timeout has fired: it is shown Completed.
C8_Witness ==
    \E p \in DOMAIN conv :
        /\ conv[p].state = "resolved"
        /\ ~conv[p].timeout
        /\ fileItems[p].status = "Completed"

\* C9: a call that resolves has handed a value to its progress callback.
C9_ProgressBeforeResolve ==
    [][ \A p \in Pending : conv'[p].state = "resolved" => conv[p].last > 0 ]_vars

\* A call that resolved while its timeout is still to fire.
C9_Witness ==
    \E p \in DOMAIN conv : conv[p].state = "resolved" /\ conv[p].timeout

\* C10: after a handleFiles call every candidate is in exactly one of
\* validFiles and invalidFiles.
C10_Partition ==
    LET A == Range(validFiles)
        R == {r.file : r \in Range(invalidFiles)}
    IN /\ A \cap R = {}
       /\ A \cup R = Range(candidates)
       /\ Len(validFiles) + Len(invalidFiles) = Len(candidates)

\* A call that accepted some candidates and rejected others.
C10_Witness ==
    /\ Len(validFiles) > 0
    /\ Len(invalidFiles) > 0
    /\ ~isConverting

\* The reasons a handleFiles call gave for rejecting file.
ReasonsOf(file, invalid) ==
    {r.reason : r \in {x \in Range(invalid) : x.file = file}}

TooLarge(file) == file.size > maxSize

\* C11: in a handleFiles call made on the list selectedFiles, a candidate of
\* unsupported type is rejected for its format whatever else is wrong with
\* it; otherwise one over the ceiling is rejected for its size; otherwise
\* one whose name and size are in the list is rejected as a duplicate;
\* a candidate that breaks no rule is accepted and gets no reason.
C11_RuleOrder ==
    [][ candidates' # << >> =>
          \A n \in DOMAIN candidates' :
              LET file == candidates'[n]
                  reasons == ReasonsOf(file, invalidFiles')
                  accepted == file \in Range(validFiles')
              IN /\ ~isValidAudioFile(file) =>
                        reasons = {"Format tidak didukung"} /\ ~accepted
                 /\ (isValidAudioFile(file) /\ TooLarge(file)) =>
                        reasons = {"File terlalu besar"} /\ ~accepted
                 /\ ( /\ isValidAudioFile(file)
                      /\ ~TooLarge(file)
                      /\ isDuplicate(file, selectedFiles) ) =>
                        reasons = {"File sudah ada dalam daftar"} /\ ~accepted
                 /\ ( /\ isValidAudioFile(file)
                      /\ ~TooLarge(file)
                      /\ ~isDuplicate(file, selectedFiles) ) =>
                        reasons = {} /\ accepted
      ]_vars

\* A call on a list that holds a.wav, with a candidate of unsupported type
\* that is over the ceiling and one of unsupported type that has the name
\* and size of a.wav: both rejected for their format.
C11_Witness ==
    /\ FileA \in Range(selectedFiles)
    /\ validFiles = << >>
    /\ candidates = <<FileHuge, FileAlias>>
    /\ invalidFiles = << Invalid(FileHuge, "Format tidak didukung"),
                         Invalid(FileAlias, "Format tidak didukung") >>

SameFile(f, g) == f.name = g.name /\ f.size = g.size

NoDuplicates(list) ==
    \A i \in DOMAIN list : \A j \in DOMAIN list :
        i # j => ~SameFile(list[i], list[j])

\* C12: under single-file submissions the list never holds two files of the
\* same name and size; a submitted file of supported type and size is
\* appended when the list holds no file of its name and size, and is
\* rejected as a duplicate, the list left as it was, when it does.
C12_NoDuplicates ==
    /\ []NoDuplicates(selectedFiles)
    /\ [][ \A file \in GateFiles \cup {FileA2, FileB} :
              ( /\ candidates' = <<file>>
                /\ isValidAudioFile(file)
                /\ ~TooLarge(file) ) =>
                  IF \E n \in DOMAIN selectedFiles : SameFile(selectedFiles[n], file)
                  THEN /\ validFiles' = << >>
                       /\ invalidFiles' =
                              <<Invalid(file, "File sudah ada dalam daftar")>>
                       /\ selectedFiles' = selectedFiles
                  ELSE /\ validFiles' = <<file>>
                       /\ invalidFiles' = << >>
                       /\ selectedFiles' = Append(selectedFiles, file)
          ]_vars

\* a.wav submitted again while the list holds it (and a file of the same
\* name and another size): rejected as a duplicate.
C12_Witness ==
    /\ selectedFiles = <<FileA, FileA2>>
    /\ candidates = <<FileA>>
    /\ validFiles = << >>
    /\ invalidFiles = <<Invalid(FileA, "File sudah ada dalam daftar")>>

\* C13 (as claimed): handleFiles on an empty list with a.wav, b.xyz and
\* a.wav again accepts the first a.wav only and rejects b.xyz for its
\* format and the second a.wav as a duplicate.
C13_Example ==
    [][ (selectedFiles = << >> /\ candidates' = Scenario) =>
            /\ validFiles' = <<FileA>>
            /\ invalidFiles' = << Invalid(FileB, "Format tidak didukung"),
                                  Invalid(FileA, "File sudah ada dalam daftar") >>
      ]_vars

\* C13 (amended): handleFiles on an empty list with a.wav, b.xyz and a.wav
\* again accepts both a.wav, in order, and rejects b.xyz for its format:
\* duplicates are looked for in the list as it was before the call.
C13_ExampleAmended ==
    [][ (selectedFiles = << >> /\ candidates' = Scenario) =>
            /\ validFiles' = <<FileA, FileA>>
            /\ invalidFiles' = <<Invalid(FileB, "Format tidak didukung")>>
            /\ selectedFiles' = <<FileA, FileA>>
      ]_vars

\* The call of the example has returned: the list holds a.wav twice.
C13_Witness ==
    /\ candidates = Scenario
    /\ selectedFiles = <<FileA, FileA>>
    /\ validFiles = <<FileA, FileA>>
    /\ Len(fileItems) = 2

\* C14: of the candidates of supported type, one of exactly maxSize bytes is
\* never rejected for its size (it is accepted, or is a duplicate), and one
\* of maxSize + 1 bytes is always rejected as too large.
C14_SizeBoundary ==
    \A n \in DOMAIN candidates :
        LET file == candidates[n]
            reasons == ReasonsOf(file, invalidFiles)
        IN isValidAudioFile(file) =>
              /\ file.size = maxSize =>
                    /\ reasons \subseteq {"File sudah ada dalam daftar"}
                    /\ reasons = {} <=> file \in Range(validFiles)
              /\ file.size = maxSize + 1 =>
                    /\ reasons = {"File terlalu besar"}
                    /\ file \notin Range(validFiles)

\* One call with a file of maxSize + 1 bytes and one of maxSize bytes: the
\* first rejected as too large, the second accepted.
C14_Witness ==
    /\ candidates = <<FileBig, FileEdge>>
    /\ validFiles = <<FileEdge>>
    /\ invalidFiles = <<Invalid(FileBig, "File terlalu besar")>>
    /\ selectedFiles = <<FileEdge>>

\* C15: a handleFiles call leaves the files that were in the list where they
\* were, whatever it rejects: the old list is a prefix of the new one, the
\* rest being the accepted candidates; with every candidate rejected the
\* list and its elements are unchanged.
C15_AcceptedPrefix ==
    [][ candidates' # << >> =>
            /\ Len(selectedFiles') >= Len(selectedFiles)
            /\ SubSeq(selectedFiles', 1, Len(selectedFiles)) = selectedFiles
            /\ SubSeq(selectedFiles', Len(selectedFiles) + 1, Len(selectedFiles'))
                   = validFiles'
            /\ validFiles' = << >> =>
                   (selectedFiles' = selectedFiles /\ fileItems' = fileItems)
      ]_vars

\* A call on the list [a.wav] that rejected one candidate and accepted
\* another.
C15_Witness ==
    /\ selectedFiles = <<FileA, FileEdge>>
    /\ candidates = <<FileBig, FileEdge>>
    /\ validFiles = <<FileEdge>>
    /\ Len(invalidFiles) = 1

\* C16 (as claimed): a batchConvert call with an empty list or with a
\* concurrentLimit of 0 or less ends rejected, having made no convertToFLAC
\* call: it neither returns a result nor runs forever.
C16_PreconditionFails ==
    ( /\ batch.state # "idle"
      /\ (Len(batch.files) = 0 \/ batch.limit <= 0) ) =>
        /\ batch.state = "rejected"
        /\ \A p \in DOMAIN conv : conv[p].state = "none"

\* C17: the results batchConvert has collected, and the result it returns,
\* follow the input: entry i is the converted file of input file i, and a
\* returned result has an entry for every file.
C17_ResultOrder ==
    /\ Len(batch.results) <= Len(batch.files)
    /\ \A i \in DOMAIN batch.results :
          /\ batch.results[i].originalName = batch.files[i].name
          /\ batch.results[i].originalSize = batch.files[i].size
    /\ batch.state = "resolved" => Len(batch.results) = Len(batch.files)

\* A call returned whose first chunk held more than one file, the first
\* file being the one whose interval ticked last: it finished after the
\* second.
C17_Witness ==
    /\ batch.state = "resolved"
    /\ batch.limit >= 2
    /\ Len(batch.files) = 2
    /\ turn = 1
    /\ Len(batch.results) = 2

\* C18: no step taken while isConverting is true changes selectedFiles; the
\* handleFiles, removeFile and clearAll calls made during a run return
\* before they touch it.
C18_ListFrozen ==
    [][ isConverting =>
            /\ selectedFiles' = selectedFiles
            /\ Len(fileItems') = Len(fileItems)
      ]_vars

\* A run in its second window: the handlers were callable all the way.
C18_Witness ==
    /\ isConverting
    /\ run.i = batchSize
    /\ Len(selectedFiles) > batchSize
    /\ \A p \in 1..batchSize : conv[p].state \in Terminal
    /\ conv[batchSize + 1].progress > 0

\* C20: while a run is active no call of it is made again: a dispatched
\* position keeps its file and the task it was dispatched in, a settled call
\* stays settled, fired or cleared timers are not set again, a pending
\* call's progress does not go back, and the loop does not restart; a run
\* that ends has dispatched every file once, in the task of its window.
C20_SingleRun ==
    [][ isConverting =>
            /\ run'.i >= run.i
            /\ Len(reports') >= Len(reports)
            /\ \A p \in DOMAIN conv :
                  conv[p].state # "none" =>
                      /\ p \in DOMAIN conv'
                      /\ conv'[p].file = conv[p].file
                      /\ conv'[p].task = conv[p].task
                      /\ conv[p].state \in Terminal =>
                             conv'[p].state = conv[p].state
                      /\ conv'[p].state = "pending" =>
                             conv'[p].progress >= conv[p].progress
                      /\ ~conv[p].timeout => ~conv'[p].timeout
                      /\ ~conv[p].interval => ~conv'[p].interval
            /\ ~isConverting' =>
                  /\ Len(conv') = Len(selectedFiles)
                  /\ \A p \in DOMAIN conv' :
                        /\ conv'[p].state \in Terminal
                        /\ conv'[p].file = selectedFiles[p]
                        /\ conv'[p].task = WindowOf(p) * batchSize + 1
      ]_vars

\* A run that ended after two windows, every file converted.
C20_Witness ==
    /\ ~isConverting
    /\ run.phase = "completed"
    /\ Len(conv) > batchSize
    /\ \A p \in DOMAIN conv : conv[p].state = "resolved"
    /\ conv[batchSize + 1].task = batchSize + 1

\* C19: with the timers kept running, a run that started ends: isConverting
\* is false again and no file is left showing Converting.
C19_RunEnds ==
    isConverting ~>
        ( /\ ~isConverting
          /\ \A p \in DOMAIN fileItems : fileItems[p].status # "Converting..." )

\* A run of one window that ended with one file failed and one completed.
C19_Witness ==
    /\ ~isConverting
    /\ run.phase = "completed"
    /\ Len(selectedFiles) = 2
    /\ Len(reports) = 1
    /\ fileItems[1].status = "Completed"
    /\ fileItems[2].status = "Failed"

\* C21 (as claimed): every percentage reported is completed / total * 100
\* rounded to the nearest integer, a half rounded up as Math.round does
\* (p <= x + 1/2 < p + 1 for x = 100 * completed / total), which its two
\* arguments determine, and lies in 0..100; a report made in a run carries
\* the number of files that have settled and the length of the list; the
\* last report of a run that went through its last window is 100.
C21_Percentage ==
    /\ [](\A j \in DOMAIN reports :
              LET p == reports[j].percentage
                  completed == reports[j].completed
                  total == reports[j].total
              IN /\ 2 * p * total <= 200 * completed + total
                 /\ 200 * completed + total < 2 * (p + 1) * total
                 /\ p \in 0..100)
    /\ [](run.phase = "completed" =>
              /\ Len(reports) > 0
              /\ reports[Len(reports)].percentage = 100)
    /\ [][ (Len(reports') = Len(reports) + 1 /\ run'.phase # "idle") =>
              LET r == reports'[Len(reports')]
              IN /\ r.total = Len(selectedFiles')
                 /\ r.completed =
                        Cardinality({p \in DOMAIN conv' :
                                        conv'[p].state \in Terminal}) ]_vars

\* C22 (as claimed): once the promise of batchConvert is resolved or
\* rejected, no timer callback calls progressCallback for a file of the
\* batch any more (every call records its file and progress in lastCall).
C22_QuietAfterSettled ==
    [][ batch.state \in Terminal => batch'.lastCall = batch.lastCall ]_vars

====
